---- MODULE Spec2Model ----
(***************************************************************************)
(* Stacks of the repository and the algorithms built on them.              *)
(*                                                                         *)
(* Every source file is a program of its own (a class, a module-level      *)
(* instance and a demo script).  The variable prog says which program is   *)
(* running; each program's object lives in its own variable and the        *)
(* operations are the methods a client may call on it, in any order.       *)
(* A method is a pure operator from the object (and its argument) to the   *)
(* object afterwards, the value returned and the lines written by          *)
(* console.error; an action applies one method call to the instance.       *)
(*                                                                         *)
(* JavaScript values are strings: the pushed values, "undefined" and       *)
(* "null".  JavaScript arrays are sequences, index i of the array being    *)
(* index i + 1 of the sequence.                                            *)
(***************************************************************************)
EXTENDS Integers, Sequences, FiniteSets, TLC

VARIABLES
    prog,           \* the source file whose program is running
    slotStack,      \* part_002: const stack = new Stack<T>(), the stack with
                    \* the single undo slot
    stack,          \* stack.ts: const stack = new Stack<T>()
    linkedStack,    \* linkedStackNode.ts: const linkedStack = new LinkedStack<T>()
    balancedStack,  \* BalancedStack.ts: the module-level balancedStack
    infixToPostfix, \* InfixToPostfixAlgorithm.ts: the module-level infixToPostfix
    frame,          \* InfixToPostfixAlgorithm.ts: the running convert call, its
                    \* position and its local variables
    scanned,        \* the number of characters passed to isBalanced, or to
                    \* convert, so far, over all the calls
    op,             \* the last method called ("new" after construction)
    arg,            \* its argument
    ret,            \* the value it returned
    log,            \* the console.error lines it wrote
    before,         \* the object as it was when the method was called
    lifo,           \* pushes and pops observed since construction, while the
                    \* calls are accepted pushes followed by successful pops
    run,            \* the current run of successful pops and the undos after it
    justPopped,     \* after a push that directly follows a successful pop:
                    \* the value that pop returned
    ret2,           \* where two stacks are driven by the same calls: what
                    \* the last call returned from the second one
    numberStack,    \* part_000: const stack = new Stack(), the stack of
                    \* numbers with the element field
    pushes          \* part_000: the number of push calls the client has made

vars == <<prog, slotStack, stack, linkedStack, balancedStack, infixToPostfix,
          frame, scanned,
          op, arg, ret, log, before, lifo, run, justPopped, ret2,
          numberStack, pushes>>

----------------------------------------------------------------------------
(* Bounds of the exploration *)

\* pop is explored while the undo history holds fewer entries than this
MaxHistory == 3
\* part_000: push is explored while the client has made fewer push calls
\* than this
MaxPushes == 3
\* LinkedStack.push is explored while the stack holds fewer nodes than this
MaxLinkedSize == 3
\* isBalanced is called, any number of times, while the expressions passed
\* to it so far hold fewer characters than this, on every string that fits
\* into the rest (and on the documented examples)
MaxChars == 5
\* convert is called, any number of times, while the expressions passed to
\* it so far hold fewer characters than this, on every string that fits
\* into the rest
MaxInfixChars == 3
\* the first conversion is also made on every expression of the grammar
\* with at most this many operands and bracket pairs together
MaxExprSize == 3
\* the characters kept of the string convert builds
MaxOutputLen == 24

\* the values a client pushes (stack2 of stack.ts pushes 'a', 'b', 'c')
Values == {"a", "b"}

----------------------------------------------------------------------------
(* JavaScript values *)

MAX_SIZE == 9
Undefined == "undefined"
Null == "null"
\* a LinkedStackNode reference that is null; nodes are numbered from 1
NullRef == 0
NoArg == "none"

\* arr[i]: undefined outside the array
At(arr, i) == IF 0 <= i /\ i < Len(arr) THEN arr[i + 1] ELSE Undefined

\* arr[i] = value, for 0 <= i <= arr.length (the stacks never write further)
Store(arr, i, value) ==
    IF i < Len(arr) THEN [arr EXCEPT ![i + 1] = value] ELSE Append(arr, value)

\* Array.prototype.pop: the array without its last entry
ArrayPopRest(arr) == IF arr = <<>> THEN <<>> ELSE SubSeq(arr, 1, Len(arr) - 1)
\* Array.prototype.pop: the entry removed, undefined for an empty array
ArrayPopValue(arr) == IF arr = <<>> THEN Undefined ELSE arr[Len(arr)]

Outcome(o, r, l) == [obj |-> o, ret |-> r, log |-> l]

----------------------------------------------------------------------------
(* stack.ts: class Stack<T>, bounded by MAX_SIZE, with an undo history *)

NewStack == [elements |-> <<>>, topLevel |-> -1, length |-> 0,
             poppedHistory |-> <<>>]

\* push that rejects without writing to the console
Stack_push_silent(s, value) ==
    IF s.topLevel >= MAX_SIZE - 1
    THEN Outcome(s, Undefined, <<>>)
    ELSE Outcome([s EXCEPT !.topLevel = s.topLevel + 1,
                           !.elements = Store(s.elements, s.topLevel + 1, value),
                           !.length = s.length + 1],
                 Undefined, <<>>)

\* push whose overflow check lets one element too many in
Stack_push_offByOne(s, value) ==
    IF s.topLevel >= MAX_SIZE
    THEN Outcome(s, Undefined, <<"stack overflow">>)
    ELSE Outcome([s EXCEPT !.topLevel = s.topLevel + 1,
                           !.elements = Store(s.elements, s.topLevel + 1, value),
                           !.length = s.length + 1],
                 Undefined, <<>>)

\* push that empties the undo history
Stack_push_clearsHistory(s, value) ==
    IF s.topLevel >= MAX_SIZE - 1
    THEN Outcome(s, Undefined, <<"stack overflow">>)
    ELSE Outcome([s EXCEPT !.topLevel = s.topLevel + 1,
                           !.elements = Store(s.elements, s.topLevel + 1, value),
                           !.length = s.length + 1,
                           !.poppedHistory = <<>>],
                 Undefined, <<>>)

Stack_push(s, value) ==
    IF s.topLevel >= MAX_SIZE - 1
    THEN Outcome(s, Undefined, <<"stack overflow">>)
    ELSE Outcome([s EXCEPT !.topLevel = s.topLevel + 1,
                           !.elements = Store(s.elements, s.topLevel + 1, value),
                           !.length = s.length + 1],
                 Undefined, <<>>)

\* pop that moves the pointer down before it reads the top element
Stack_pop_decrementFirst(s) ==
    IF s.topLevel < 0
    THEN Outcome(s, Undefined, <<"stack underflow">>)
    ELSE LET value == At(s.elements, s.topLevel - 1)
         IN  Outcome([s EXCEPT !.poppedHistory = Append(s.poppedHistory, value),
                               !.topLevel = s.topLevel - 1,
                               !.length = s.length - 1],
                     value, <<>>)

\* pop that records the element in the history before it checks for underflow
Stack_pop_recordsUnderflow(s) ==
    LET value == At(s.elements, s.topLevel)
        t == [s EXCEPT !.poppedHistory = Append(s.poppedHistory, value)]
    IN  IF s.topLevel < 0
        THEN Outcome(t, Undefined, <<"stack underflow">>)
        ELSE Outcome([t EXCEPT !.topLevel = s.topLevel - 1,
                               !.length = s.length - 1],
                     value, <<>>)

\* pop that does not record the element in the history
Stack_pop_noHistory(s) ==
    IF s.topLevel < 0
    THEN Outcome(s, Undefined, <<"stack underflow">>)
    ELSE LET value == At(s.elements, s.topLevel)
         IN  Outcome([s EXCEPT !.topLevel = s.topLevel - 1,
                               !.length = s.length - 1],
                     value, <<>>)

\* pop that moves the pointer down before it checks for underflow
Stack_pop_lowersPointerFirst(s) ==
    LET value == At(s.elements, s.topLevel)
        t == [s EXCEPT !.topLevel = s.topLevel - 1]
    IN  IF s.topLevel < 0
        THEN Outcome(t, Undefined, <<"stack underflow">>)
        ELSE Outcome([t EXCEPT !.poppedHistory = Append(s.poppedHistory, value),
                               !.length = s.length - 1],
                     value, <<>>)

Stack_pop(s) ==
    IF s.topLevel < 0
    THEN Outcome(s, Undefined, <<"stack underflow">>)
    ELSE LET value == At(s.elements, s.topLevel)
         IN  Outcome([s EXCEPT !.poppedHistory = Append(s.poppedHistory, value),
                               !.topLevel = s.topLevel - 1,
                               !.length = s.length - 1],
                     value, <<>>)

\* peek that reads the element below the top
Stack_peek_belowTop(s) ==
    IF s.topLevel < 0
    THEN Outcome(s, Undefined, <<"stack underflow">>)
    ELSE Outcome(s, At(s.elements, s.topLevel - 1), <<>>)

Stack_peek(s) ==
    IF s.topLevel < 0
    THEN Outcome(s, Undefined, <<"stack underflow">>)
    ELSE Outcome(s, At(s.elements, s.topLevel), <<>>)

\* undo that reads the last history entry without removing it
Stack_undo_keepsHistory(s) ==
    LET lastPopped == ArrayPopValue(s.poppedHistory)
    IN  IF lastPopped # Undefined
        THEN LET p == Stack_push(s, lastPopped)
             IN  Outcome(p.obj, lastPopped, p.log)
        ELSE Outcome(s, Undefined, <<>>)

\* undo that takes the oldest history entry (shift) instead of the newest (pop)
Stack_undo_oldestFirst(s) ==
    LET lastPopped == IF s.poppedHistory = <<>> THEN Undefined
                      ELSE Head(s.poppedHistory)
        t == [s EXCEPT !.poppedHistory =
                  IF s.poppedHistory = <<>> THEN <<>> ELSE Tail(s.poppedHistory)]
    IN  IF lastPopped # Undefined
        THEN LET p == Stack_push(t, lastPopped)
             IN  Outcome(p.obj, lastPopped, p.log)
        ELSE Outcome(t, Undefined, <<>>)

\* undo that puts the element back itself, without the capacity check of push
Stack_undo_unbounded(s) ==
    LET lastPopped == ArrayPopValue(s.poppedHistory)
        t == [s EXCEPT !.poppedHistory = ArrayPopRest(s.poppedHistory)]
    IN  IF lastPopped # Undefined
        THEN Outcome([t EXCEPT !.topLevel = s.topLevel + 1,
                               !.elements = Store(s.elements, s.topLevel + 1,
                                                  lastPopped),
                               !.length = s.length + 1],
                     lastPopped, <<>>)
        ELSE Outcome(t, Undefined, <<>>)

Stack_undo(s) ==
    LET lastPopped == ArrayPopValue(s.poppedHistory)
        t == [s EXCEPT !.poppedHistory = ArrayPopRest(s.poppedHistory)]
    IN  IF lastPopped # Undefined
        THEN LET p == Stack_push(t, lastPopped)
             IN  Outcome(p.obj, lastPopped, p.log)
        ELSE Outcome(t, Undefined, <<>>)

\* the elements of the stack, bottom first
StackContents(s) == SubSeq(s.elements, 1, s.topLevel + 1)

----------------------------------------------------------------------------
(* part_002: class Stack<T>, bounded by MAX_SIZE, with one slot for undo *)

NewSlotStack == [elements |-> <<>>, topLevel |-> -1, length |-> 0,
                 element |-> Undefined]

SlotStack_push(s, value) ==
    IF s.topLevel >= MAX_SIZE - 1
    THEN Outcome(s, Undefined, <<"stack overflow">>)
    ELSE Outcome([s EXCEPT !.topLevel = s.topLevel + 1,
                           !.elements = Store(s.elements, s.topLevel + 1, value),
                           !.length = s.length + 1],
                 Undefined, <<>>)

SlotStack_pop(s) ==
    IF s.topLevel < 0
    THEN Outcome(s, Undefined, <<"stack underflow">>)
    ELSE LET value == At(s.elements, s.topLevel)
         IN  Outcome([s EXCEPT !.element = value,
                               !.topLevel = s.topLevel - 1,
                               !.length = s.length - 1],
                     value, <<>>)

SlotStack_peek(s) ==
    IF s.topLevel < 0
    THEN Outcome(s, Undefined, <<"stack underflow">>)
    ELSE Outcome(s, At(s.elements, s.topLevel), <<>>)

\* undo that leaves the slot filled after restoring
SlotStack_undo_keepsSlot(s) ==
    IF s.element # Undefined
    THEN LET p == SlotStack_push(s, s.element)
         IN  Outcome(p.obj, Undefined, p.log)
    ELSE Outcome(s, Undefined, <<"no element was deleted">>)

SlotStack_undo(s) ==
    IF s.element # Undefined
    THEN LET p == SlotStack_push(s, s.element)
         IN  Outcome([p.obj EXCEPT !.element = Undefined], Undefined, p.log)
    ELSE Outcome(s, Undefined, <<"no element was deleted">>)

----------------------------------------------------------------------------
(* part_000: class Stack, a stack of numbers bounded by MAX_SIZE, with the   *)
(* field element for undo.  The numbers are written like the other values:  *)
(* "0" is the number 0, "1" the number 1.                                   *)

\* the numbers the client pushes
Numbers == {"0", "1"}

\* the constructor sets elements, topLevel and length; element has no
\* initializer and is undefined until the first pop
NewNumberStack == [elements |-> <<>>, topLevel |-> -1, length |-> 0,
                   element |-> Undefined]

\* `if (x)`: undefined and the number 0 are falsy, every other number the
\* stack can hold is truthy
Truthy(x) == x # Undefined /\ x # "0"

NumberStack_push(s, value) ==
    IF s.topLevel >= MAX_SIZE - 1
    THEN Outcome(s, Undefined, <<"stack overflow">>)
    ELSE Outcome([s EXCEPT !.topLevel = s.topLevel + 1,
                           !.elements = Store(s.elements, s.topLevel + 1, value),
                           !.length = s.length + 1],
                 Undefined, <<>>)

NumberStack_pop(s) ==
    IF s.topLevel < 0
    THEN Outcome(s, Undefined, <<"stack underflow">>)
    ELSE LET value == At(s.elements, s.topLevel)
         IN  Outcome([s EXCEPT !.element = value,
                               !.topLevel = s.topLevel - 1,
                               !.length = s.length - 1],
                     value, <<>>)

NumberStack_peek(s) ==
    IF s.topLevel < 0
    THEN Outcome(s, Undefined, <<"stack underflow">>)
    ELSE Outcome(s, At(s.elements, s.topLevel), <<>>)

\* `this.element` stays as it is after the push
NumberStack_undo(s) ==
    IF Truthy(s.element)
    THEN LET p == NumberStack_push(s, s.element)
         IN  Outcome(p.obj, Undefined, p.log)
    ELSE Outcome(s, Undefined, <<"no element was deleted">>)

----------------------------------------------------------------------------
(* linkedStackNode.ts: class LinkedStackNode<T> and class LinkedStack<T> *)

\* nodes is the heap: the LinkedStackNode objects reachable from the stack,
\* by reference.  A node no reference leads to is garbage and is dropped.
NewLinkedStack == [head |-> NullRef, tail |-> NullRef, size |-> 0,
                   poppedHistory |-> <<>>, nodes |-> <<>>]

LinkedStackNode(value) == [value |-> value, next |-> NullRef]

\* the reference new LinkedStackNode(value) returns
FreshRef(nodes) ==
    CHOOSE n \in 1..(Cardinality(DOMAIN nodes) + 1) :
        /\ n \notin DOMAIN nodes
        /\ \A m \in 1..(n - 1) : m \in DOMAIN nodes

LinkedStack_push(ls, value) ==
    LET node == FreshRef(ls.nodes)
    IN  IF ls.head = NullRef
        THEN Outcome([ls EXCEPT !.nodes = (node :> LinkedStackNode(value)) @@ ls.nodes,
                                !.head = node,
                                !.tail = node,
                                !.size = ls.size + 1],
                     Undefined, <<>>)
        ELSE Outcome([ls EXCEPT !.nodes = (node :> [LinkedStackNode(value)
                                                      EXCEPT !.next = ls.head])
                                           @@ ls.nodes,
                                !.head = node,
                                !.size = ls.size + 1],
                     Undefined, <<>>)

\* pop that leaves tail on the node it removed when the stack becomes empty
LinkedStack_pop_keepsTail(ls) ==
    IF ls.head = NullRef
    THEN Outcome(ls, Null, <<"stack underflow">>)
    ELSE LET node == ls.head
             newHead == ls.nodes[node].next
             value == ls.nodes[node].value
         IN  Outcome([ls EXCEPT !.head = newHead,
                                !.nodes = [n \in DOMAIN ls.nodes \ {node} |->
                                               ls.nodes[n]],
                                !.size = ls.size - 1,
                                !.poppedHistory = Append(ls.poppedHistory, value)],
                     value, <<>>)

LinkedStack_pop(ls) ==
    IF ls.head = NullRef
    THEN Outcome(ls, Null, <<"stack underflow">>)
    ELSE LET node == ls.head
             newHead == ls.nodes[node].next
             value == ls.nodes[node].value
         IN  Outcome([ls EXCEPT !.head = newHead,
                                !.nodes = [n \in DOMAIN ls.nodes \ {node} |-> ls.nodes[n]],
                                !.size = ls.size - 1,
                                !.poppedHistory = Append(ls.poppedHistory, value),
                                !.tail = IF newHead = NullRef THEN NullRef ELSE ls.tail],
                     value, <<>>)

LinkedStack_peek(ls) ==
    IF ls.head = NullRef
    THEN Outcome(ls, Null, <<"stack underflow">>)
    ELSE Outcome(ls, ls.nodes[ls.head].value, <<>>)

\* undo that pushes whatever the history gave, undefined included
LinkedStack_undo_unchecked(ls) ==
    LET lastPopped == ArrayPopValue(ls.poppedHistory)
        t == [ls EXCEPT !.poppedHistory = ArrayPopRest(ls.poppedHistory)]
        p == LinkedStack_push(t, lastPopped)
    IN  Outcome(p.obj, lastPopped, p.log)

\* undo that reads the last history entry without removing it
LinkedStack_undo_keepsHistory(ls) ==
    LET lastPopped == ArrayPopValue(ls.poppedHistory)
    IN  IF lastPopped # Undefined
        THEN LET p == LinkedStack_push(ls, lastPopped)
             IN  Outcome(p.obj, lastPopped, p.log)
        ELSE Outcome(ls, Undefined, <<>>)

LinkedStack_undo(ls) ==
    LET lastPopped == ArrayPopValue(ls.poppedHistory)
        t == [ls EXCEPT !.poppedHistory = ArrayPopRest(ls.poppedHistory)]
    IN  IF lastPopped # Undefined
        THEN LET p == LinkedStack_push(t, lastPopped)
             IN  Outcome(p.obj, lastPopped, p.log)
        ELSE Outcome(t, Undefined, <<>>)

RECURSIVE LinkedFrom(_, _)
\* the values from node ref down to the bottom, top first
LinkedFrom(nodes, ref) ==
    IF ref = NullRef THEN <<>>
    ELSE <<nodes[ref].value>> \o LinkedFrom(nodes, nodes[ref].next)

RECURSIVE Reverse(_)
Reverse(s) == IF s = <<>> THEN <<>> ELSE Append(Reverse(Tail(s)), Head(s))

\* the elements of the stack, bottom first
LinkedContents(ls) == Reverse(LinkedFrom(ls.nodes, ls.head))

----------------------------------------------------------------------------
(* BalancedStack.ts: class BalancedStack<T>, the module-level balancedStack *)
(* and function isBalanced.  A string is the sequence of its characters.   *)

NewBalancedStack == [elements |-> <<>>, topLevel |-> -1, length |-> 0,
                     poppedHistory |-> <<>>]

BalancedStack_push(s, value) ==
    Outcome([s EXCEPT !.topLevel = s.topLevel + 1,
                      !.elements = Store(s.elements, s.topLevel + 1, value),
                      !.length = s.length + 1],
            Undefined, <<>>)

BalancedStack_pop(s) ==
    IF s.topLevel < 0
    THEN Outcome(s, Undefined, <<"stack underflow">>)
    ELSE LET value == At(s.elements, s.topLevel)
         IN  Outcome([s EXCEPT !.poppedHistory = Append(s.poppedHistory, value),
                               !.topLevel = s.topLevel - 1,
                               !.length = s.length - 1],
                     value, <<>>)

BalancedStack_peek(s) ==
    IF s.topLevel < 0
    THEN Outcome(s, Undefined, <<"stack underflow">>)
    ELSE Outcome(s, At(s.elements, s.topLevel), <<>>)

\* undo that takes the oldest history entry (shift) instead of the newest (pop)
BalancedStack_undo_oldestFirst(s) ==
    LET lastPopped == IF s.poppedHistory = <<>> THEN Undefined
                      ELSE Head(s.poppedHistory)
        t == [s EXCEPT !.poppedHistory =
                  IF s.poppedHistory = <<>> THEN <<>> ELSE Tail(s.poppedHistory)]
    IN  IF lastPopped # Undefined
        THEN LET p == BalancedStack_push(t, lastPopped)
             IN  Outcome(p.obj, lastPopped, p.log)
        ELSE Outcome(t, Undefined, <<>>)

BalancedStack_undo(s) ==
    LET lastPopped == ArrayPopValue(s.poppedHistory)
        t == [s EXCEPT !.poppedHistory = ArrayPopRest(s.poppedHistory)]
    IN  IF lastPopped # Undefined
        THEN LET p == BalancedStack_push(t, lastPopped)
             IN  Outcome(p.obj, lastPopped, p.log)
        ELSE Outcome(t, Undefined, <<>>)

BalancedStack_isEmpty(s) == s.topLevel < 0

\* the closing character char does not close the popped character top,
\* with '}' compared against '[' and ']' against '{'
Mismatch_swappedKinds(char, top) ==
    \/ (char = ")" /\ top # "(")
    \/ (char = "}" /\ top # "[")
    \/ (char = "]" /\ top # "{")

\* the closing character char does not close the popped character top
Mismatch(char, top) ==
    \/ (char = ")" /\ top # "(")
    \/ (char = "}" /\ top # "{")
    \/ (char = "]" /\ top # "[")

RECURSIVE isBalancedFrom_skipsUnmatched(_, _, _, _)
\* isBalanced that goes on to the next character when it meets a closing
\* bracket on an empty stack
isBalancedFrom_skipsUnmatched(s, expression, i, l) ==
    IF i > Len(expression)
    THEN Outcome(s, BalancedStack_isEmpty(s), l)
    ELSE LET char == expression[i]
         IN  IF char = "(" \/ char = "{" \/ char = "["
             THEN LET p == BalancedStack_push(s, char)
                  IN  isBalancedFrom_skipsUnmatched(p.obj, expression, i + 1,
                                                    l \o p.log)
             ELSE IF char = ")" \/ char = "}" \/ char = "]"
             THEN IF BalancedStack_isEmpty(s)
                  THEN isBalancedFrom_skipsUnmatched(s, expression, i + 1, l)
                  ELSE LET p == BalancedStack_pop(s)
                       IN  IF Mismatch(char, p.ret)
                           THEN Outcome(p.obj, FALSE, l \o p.log)
                           ELSE isBalancedFrom_skipsUnmatched(
                                    p.obj, expression, i + 1, l \o p.log)
             ELSE isBalancedFrom_skipsUnmatched(s, expression, i + 1, l)

RECURSIVE isBalancedFrom_rejectsOthers(_, _, _, _)
\* isBalanced that returns false at a character that is not a bracket
isBalancedFrom_rejectsOthers(s, expression, i, l) ==
    IF i > Len(expression)
    THEN Outcome(s, BalancedStack_isEmpty(s), l)
    ELSE LET char == expression[i]
         IN  IF char = "(" \/ char = "{" \/ char = "["
             THEN LET p == BalancedStack_push(s, char)
                  IN  isBalancedFrom_rejectsOthers(p.obj, expression, i + 1,
                                                   l \o p.log)
             ELSE IF char = ")" \/ char = "}" \/ char = "]"
             THEN IF BalancedStack_isEmpty(s)
                  THEN Outcome(s, FALSE, l)
                  ELSE LET p == BalancedStack_pop(s)
                       IN  IF Mismatch(char, p.ret)
                           THEN Outcome(p.obj, FALSE, l \o p.log)
                           ELSE isBalancedFrom_rejectsOthers(
                                    p.obj, expression, i + 1, l \o p.log)
             ELSE Outcome(s, FALSE, l)

RECURSIVE isBalancedFrom(_, _, _, _)
\* the for loop of isBalanced from character i on (l: console lines so far),
\* and the return after it
isBalancedFrom(s, expression, i, l) ==
    IF i > Len(expression)
    THEN Outcome(s, BalancedStack_isEmpty(s), l)
    ELSE LET char == expression[i]
         IN  IF char = "(" \/ char = "{" \/ char = "["
             THEN LET p == BalancedStack_push(s, char)
                  IN  isBalancedFrom(p.obj, expression, i + 1, l \o p.log)
             ELSE IF char = ")" \/ char = "}" \/ char = "]"
             THEN IF BalancedStack_isEmpty(s)
                  THEN Outcome(s, FALSE, l)
                  ELSE LET p == BalancedStack_pop(s)
                       IN  IF Mismatch(char, p.ret)
                           THEN Outcome(p.obj, FALSE, l \o p.log)
                           ELSE isBalancedFrom(p.obj, expression, i + 1, l \o p.log)
             ELSE isBalancedFrom(s, expression, i + 1, l)

isBalanced(s, expression) == isBalancedFrom(s, expression, 1, <<>>)

\* the characters of the explored expressions: the six brackets and a letter
Alphabet == {"(", ")", "[", "]", "{", "}", "a"}

\* expression1..3 of the demo, the examples of isBalanced's documentation
\* and "(()"
expression1 == <<"(", ")">>
expression2 == <<"(", "{", "[", "]", "}", ")">>
expression3 == <<"(", "[", ")", "]">>
DocExpressions == {expression1, expression2, expression3,
                   <<"(", "(", "(", ")">>, <<"(", ")", ")">>, <<"(", "(", ")">>}

\* the strings of n characters
ExpressionsOfLen(n) == [1..n -> Alphabet]

----------------------------------------------------------------------------
(* InfixToPostfixAlgorithm.ts: class InfixToPostfixStack and the            *)
(* module-level infixToPostfix.  convert runs in steps: one per character   *)
(* of the for loop, one per test and per body of the closing-bracket loop,  *)
(* one per iteration of the operator loop and of the final loop.            *)

NewInfixToPostfixStack == [elements |-> <<>>, topLevel |-> -1, length |-> 0,
                           poppedHistory |-> <<>>]

InfixToPostfixStack_push(s, value) ==
    Outcome([s EXCEPT !.topLevel = s.topLevel + 1,
                      !.elements = Store(s.elements, s.topLevel + 1, value),
                      !.length = s.length + 1],
            Undefined, <<>>)

InfixToPostfixStack_pop(s) ==
    IF s.topLevel < 0
    THEN Outcome(s, Undefined, <<"stack underflow">>)
    ELSE LET value == At(s.elements, s.topLevel)
         IN  Outcome([s EXCEPT !.poppedHistory = Append(s.poppedHistory, value),
                               !.topLevel = s.topLevel - 1,
                               !.length = s.length - 1],
                     value, <<>>)

InfixToPostfixStack_peek(s) ==
    IF s.topLevel < 0
    THEN Outcome(s, Undefined, <<"stack underflow">>)
    ELSE Outcome(s, At(s.elements, s.topLevel), <<>>)

InfixToPostfixStack_isEmpty(s) == s.topLevel < 0

\* isOperator that takes '^' for an operator too
isOperator_withCaret(char) ==
    char = "+" \/ char = "-" \/ char = "*" \/ char = "/" \/ char = "^"

isOperator(char) == char = "+" \/ char = "-" \/ char = "*" \/ char = "/"

\* precedence that gives the opening brackets the rank of '+'
precedence_ranksOpening(char) ==
    IF char = "+" \/ char = "-" \/ char = "(" \/ char = "[" \/ char = "{" THEN 1
    ELSE IF char = "*" \/ char = "/" THEN 2
    ELSE 0

\* precedence that ranks '*' and '/' with '+' and '-'
precedence_flat(char) ==
    IF char = "+" \/ char = "-" THEN 1
    ELSE IF char = "*" \/ char = "/" THEN 1
    ELSE 0

precedence(char) ==
    IF char = "+" \/ char = "-" THEN 1
    ELSE IF char = "*" \/ char = "/" THEN 2
    ELSE 0

\* x || '': undefined is falsy
OrEmptyString(x) == IF x = Undefined THEN "" ELSE x

\* the characters `postfixExpression += x` appends: String(undefined) is
\* "undefined"
StringOf(x) ==
    IF x = Undefined THEN <<"u", "n", "d", "e", "f", "i", "n", "e", "d">>
    ELSE <<x>>

\* postfixExpression += x.  The string is kept up to MaxOutputLen
\* characters; what a call appends beyond them is not recorded.
Appended(postfixExpression, x) ==
    LET whole == postfixExpression \o StringOf(x)
    IN  IF Len(whole) <= MaxOutputLen THEN whole
        ELSE SubSeq(whole, 1, MaxOutputLen)

\* no convert call is running; demo: how many of the demo's conversions
\* have been made, in the demo's order and with no other call
IdleFrame(demo) ==
    [pc |-> "idle", expression |-> <<>>, i |-> 0, postfixExpression |-> <<>>,
     demo |-> demo, expected |-> <<"none">>]

\* `while (this.peek() !== '(' && this.peek() !== '{' && this.peek() !== '[')`:
\* the value of the test and the console lines of its peek calls
ClosingTest(s) ==
    LET p == InfixToPostfixStack_peek(s)
    IN  IF p.ret = "(" THEN [value |-> FALSE, log |-> p.log]
        ELSE IF p.ret = "{" THEN [value |-> FALSE, log |-> p.log \o p.log]
        ELSE IF p.ret = "[" THEN [value |-> FALSE, log |-> p.log \o p.log \o p.log]
        ELSE [value |-> TRUE, log |-> p.log \o p.log \o p.log]

\* the test of the operator loop with > for >=
OperatorTest_strict(s, char) ==
    IF InfixToPostfixStack_isEmpty(s) THEN [value |-> FALSE, log |-> <<>>]
    ELSE LET p == InfixToPostfixStack_peek(s)
         IN  [value |-> precedence(OrEmptyString(p.ret)) > precedence(char),
              log |-> p.log]

\* `while (!this.isEmpty() && this.precedence(this.peek() || '') >=
\* this.precedence(char))`
OperatorTest(s, char) ==
    IF InfixToPostfixStack_isEmpty(s) THEN [value |-> FALSE, log |-> <<>>]
    ELSE LET p == InfixToPostfixStack_peek(s)
         IN  [value |-> precedence(OrEmptyString(p.ret)) >= precedence(char),
              log |-> p.log]

RECURSIVE ClosingLoop(_, _)
\* the closing-bracket branch run to its end: the loop and the `this.pop()`
\* after it.  On an empty stack peek gives undefined and pop leaves the
\* stack empty, so the loop's test stays true: the branch does not end.
ClosingLoop(s, postfixExpression) ==
    IF ClosingTest(s).value
    THEN IF InfixToPostfixStack_isEmpty(s)
         THEN [ends |-> FALSE, obj |-> s,
               postfixExpression |-> postfixExpression]
         ELSE LET r == InfixToPostfixStack_pop(s)
              IN  ClosingLoop(r.obj, Appended(postfixExpression, r.ret))
    ELSE [ends |-> TRUE, obj |-> InfixToPostfixStack_pop(s).obj,
          postfixExpression |-> postfixExpression]

RECURSIVE OperatorLoop(_, _, _)
\* the operator branch run to its end: the loop and the `this.push(char)`
OperatorLoop(s, char, postfixExpression) ==
    IF OperatorTest(s, char).value
    THEN LET r == InfixToPostfixStack_pop(s)
         IN  OperatorLoop(r.obj, char, Appended(postfixExpression, r.ret))
    ELSE [obj |-> InfixToPostfixStack_push(s, char).obj,
          postfixExpression |-> postfixExpression]

RECURSIVE FinalLoop(_, _)
\* `while (!this.isEmpty()) postfixExpression += this.pop()` run to its end
FinalLoop(s, postfixExpression) ==
    IF ~InfixToPostfixStack_isEmpty(s)
    THEN LET r == InfixToPostfixStack_pop(s)
         IN  FinalLoop(r.obj, Appended(postfixExpression, r.ret))
    ELSE [obj |-> s, postfixExpression |-> postfixExpression]

RECURSIVE convertFrom(_, _, _, _)
\* convert from character i on: whether the call returns, the string it
\* returns and the stack it leaves
convertFrom(s, expression, i, postfixExpression) ==
    IF i > Len(expression)
    THEN LET f == FinalLoop(s, postfixExpression)
         IN  [returns |-> TRUE, obj |-> f.obj,
              postfixExpression |-> f.postfixExpression]
    ELSE LET char == expression[i]
         IN  IF char = "(" \/ char = "{" \/ char = "["
             THEN convertFrom(InfixToPostfixStack_push(s, char).obj,
                              expression, i + 1, postfixExpression)
             ELSE IF char = ")" \/ char = "}" \/ char = "]"
             THEN LET c == ClosingLoop(s, postfixExpression)
                  IN  IF c.ends
                      THEN convertFrom(c.obj, expression, i + 1,
                                       c.postfixExpression)
                      ELSE [returns |-> FALSE, obj |-> c.obj,
                            postfixExpression |-> c.postfixExpression]
             ELSE IF isOperator(char)
             THEN LET o == OperatorLoop(s, char, postfixExpression)
                  IN  convertFrom(o.obj, expression, i + 1,
                                  o.postfixExpression)
             ELSE convertFrom(s, expression, i + 1,
                              Appended(postfixExpression, char))

\* convert as one call
convert(s, expression) == convertFrom(s, expression, 1, <<>>)

----------------------------------------------------------------------------
(* What a client observes of its calls *)

\* Pushes and pops since construction, as long as the calls are at most
\* MAX_SIZE pushes followed by at most as many pops.
NoLifo == [phase |-> "other", pushed |-> <<>>, popped |-> <<>>]

LifoAfter(l, o, a, r) ==
    IF o = "push" /\ l.phase = "pushing" /\ Len(l.pushed) < MAX_SIZE
    THEN [l EXCEPT !.pushed = Append(l.pushed, a)]
    ELSE IF o = "pop" /\ l.phase \in {"pushing", "popping"}
                      /\ Len(l.popped) < Len(l.pushed)
    THEN [l EXCEPT !.phase = "popping", !.popped = Append(l.popped, r.ret)]
    ELSE NoLifo

\* The current run of consecutive pops from a non-empty stack (states: the
\* object before each of them, pops: the values they returned) and the
\* consecutive undos that follow it (undos: the values they returned).
NoRun == [states |-> <<>>, pops |-> <<>>, undos |-> <<>>]

RunAfter(rn, o, r, b, nonEmpty) ==
    IF o = "pop" /\ nonEmpty
    THEN IF rn.undos = <<>>
         THEN [rn EXCEPT !.states = Append(rn.states, b),
                         !.pops = Append(rn.pops, r.ret)]
         ELSE [states |-> <<b>>, pops |-> <<r.ret>>, undos |-> <<>>]
    ELSE IF o = "undo" /\ Len(rn.undos) < Len(rn.pops)
    THEN [rn EXCEPT !.undos = Append(rn.undos, r.ret)]
    ELSE NoRun

Called(o, a, r, b, nonEmpty) ==
    /\ op' = o
    /\ arg' = a
    /\ ret' = r.ret
    /\ log' = r.log
    /\ before' = b
    /\ lifo' = LifoAfter(lifo, o, a, r)
    /\ run' = RunAfter(run, o, r, b, nonEmpty)
    /\ justPopped' = IF o = "push" /\ op = "pop" /\ run.pops # <<>>
                     THEN ret ELSE NoArg

----------------------------------------------------------------------------
(* stack.ts: the calls a client makes on stack *)

Push(value) ==
    /\ prog = "stack.ts"
    /\ LET r == Stack_push(stack, value)
       IN  /\ stack' = r.obj
           /\ Called("push", value, r, stack, stack.length > 0)
    /\ UNCHANGED <<prog, numberStack, pushes, slotStack, ret2, linkedStack, balancedStack,
                    infixToPostfix, frame, scanned>>

PopStep ==
    /\ prog = "stack.ts"
    /\ LET r == Stack_pop(stack)
       IN  /\ stack' = r.obj
           /\ Called("pop", NoArg, r, stack, stack.length > 0)
    /\ UNCHANGED <<prog, numberStack, pushes, slotStack, ret2, linkedStack, balancedStack,
                    infixToPostfix, frame, scanned>>

Pop ==
    /\ Len(stack.poppedHistory) < MaxHistory
    /\ PopStep

Peek ==
    /\ prog = "stack.ts"
    /\ LET r == Stack_peek(stack)
       IN  /\ stack' = r.obj
           /\ Called("peek", NoArg, r, stack, stack.length > 0)
    /\ UNCHANGED <<prog, numberStack, pushes, slotStack, ret2, linkedStack, balancedStack,
                    infixToPostfix, frame, scanned>>

Undo ==
    /\ prog = "stack.ts"
    /\ LET r == Stack_undo(stack)
       IN  /\ stack' = r.obj
           /\ Called("undo", NoArg, r, stack, stack.length > 0)
    /\ UNCHANGED <<prog, numberStack, pushes, slotStack, ret2, linkedStack, balancedStack,
                    infixToPostfix, frame, scanned>>

----------------------------------------------------------------------------
(* linkedStackNode.ts: the calls a client makes on linkedStack *)

LinkedPush(value) ==
    /\ prog = "linkedStackNode.ts"
    /\ linkedStack.size < MaxLinkedSize
    /\ LET r == LinkedStack_push(linkedStack, value)
       IN  /\ linkedStack' = r.obj
           /\ Called("push", value, r, linkedStack, linkedStack.size > 0)
    /\ UNCHANGED <<prog, numberStack, pushes, slotStack, ret2, stack, balancedStack,
                    infixToPostfix, frame, scanned>>

LinkedPop ==
    /\ prog = "linkedStackNode.ts"
    /\ Len(linkedStack.poppedHistory) < MaxHistory
    /\ LET r == LinkedStack_pop(linkedStack)
       IN  /\ linkedStack' = r.obj
           /\ Called("pop", NoArg, r, linkedStack, linkedStack.size > 0)
    /\ UNCHANGED <<prog, numberStack, pushes, slotStack, ret2, stack, balancedStack,
                    infixToPostfix, frame, scanned>>

LinkedPeek ==
    /\ prog = "linkedStackNode.ts"
    /\ LET r == LinkedStack_peek(linkedStack)
       IN  /\ linkedStack' = r.obj
           /\ Called("peek", NoArg, r, linkedStack, linkedStack.size > 0)
    /\ UNCHANGED <<prog, numberStack, pushes, slotStack, ret2, stack, balancedStack,
                    infixToPostfix, frame, scanned>>

LinkedUndo ==
    /\ prog = "linkedStackNode.ts"
    /\ LET r == LinkedStack_undo(linkedStack)
       IN  /\ linkedStack' = r.obj
           /\ Called("undo", NoArg, r, linkedStack, linkedStack.size > 0)
    /\ UNCHANGED <<prog, numberStack, pushes, slotStack, ret2, stack, balancedStack,
                    infixToPostfix, frame, scanned>>

----------------------------------------------------------------------------
(* stack.ts and part_002: one client makes the same calls on both stacks *)

PairPush(value) ==
    /\ prog = "stack.ts, part_002"
    /\ LET r == Stack_push(stack, value)
           r2 == SlotStack_push(slotStack, value)
       IN  /\ stack' = r.obj
           /\ slotStack' = r2.obj
           /\ ret2' = r2.ret
           /\ Called("push", value, r, stack, stack.length > 0)
    /\ UNCHANGED <<prog, numberStack, pushes, linkedStack, balancedStack, infixToPostfix, frame,
                    scanned>>

PairPop ==
    /\ prog = "stack.ts, part_002"
    /\ Len(stack.poppedHistory) < MaxHistory
    /\ LET r == Stack_pop(stack)
           r2 == SlotStack_pop(slotStack)
       IN  /\ stack' = r.obj
           /\ slotStack' = r2.obj
           /\ ret2' = r2.ret
           /\ Called("pop", NoArg, r, stack, stack.length > 0)
    /\ UNCHANGED <<prog, numberStack, pushes, linkedStack, balancedStack, infixToPostfix, frame,
                    scanned>>

\* undo, called only while the slot of the single-slot stack is filled
PairUndo ==
    /\ prog = "stack.ts, part_002"
    /\ slotStack.element # Undefined
    /\ LET r == Stack_undo(stack)
           r2 == SlotStack_undo(slotStack)
       IN  /\ stack' = r.obj
           /\ slotStack' = r2.obj
           /\ ret2' = r2.ret
           /\ Called("undo", NoArg, r, stack, stack.length > 0)
    /\ UNCHANGED <<prog, numberStack, pushes, linkedStack, balancedStack, infixToPostfix, frame,
                    scanned>>

----------------------------------------------------------------------------
(* part_002: the calls a client makes on stack *)

\* run, where the undos that follow a run of pops are followed up to the
\* second of them, whatever they restore
SlotRunAfter(rn, o, r, b, nonEmpty) ==
    IF o = "undo" /\ rn.pops # <<>> /\ Len(rn.undos) < 2
    THEN [rn EXCEPT !.undos = Append(rn.undos, r.ret)]
    ELSE RunAfter(rn, o, r, b, nonEmpty)

SlotCalled(o, a, r, b, nonEmpty) ==
    /\ op' = o
    /\ arg' = a
    /\ ret' = r.ret
    /\ log' = r.log
    /\ before' = b
    /\ lifo' = NoLifo
    /\ run' = SlotRunAfter(run, o, r, b, nonEmpty)
    /\ justPopped' = NoArg

SlotPush(value) ==
    /\ prog = "part_002"
    /\ LET r == SlotStack_push(slotStack, value)
       IN  /\ slotStack' = r.obj
           /\ SlotCalled("push", value, r, slotStack, slotStack.length > 0)
    /\ UNCHANGED <<prog, numberStack, pushes, ret2, stack, linkedStack,
                    balancedStack, infixToPostfix, frame, scanned>>

SlotPop ==
    /\ prog = "part_002"
    /\ LET r == SlotStack_pop(slotStack)
       IN  /\ slotStack' = r.obj
           /\ SlotCalled("pop", NoArg, r, slotStack, slotStack.length > 0)
    /\ UNCHANGED <<prog, numberStack, pushes, ret2, stack, linkedStack,
                    balancedStack, infixToPostfix, frame, scanned>>

SlotPeek ==
    /\ prog = "part_002"
    /\ LET r == SlotStack_peek(slotStack)
       IN  /\ slotStack' = r.obj
           /\ SlotCalled("peek", NoArg, r, slotStack, slotStack.length > 0)
    /\ UNCHANGED <<prog, numberStack, pushes, ret2, stack, linkedStack,
                    balancedStack, infixToPostfix, frame, scanned>>

SlotUndo ==
    /\ prog = "part_002"
    /\ LET r == SlotStack_undo(slotStack)
       IN  /\ slotStack' = r.obj
           /\ SlotCalled("undo", NoArg, r, slotStack, slotStack.length > 0)
    /\ UNCHANGED <<prog, numberStack, pushes, ret2, stack, linkedStack,
                    balancedStack, infixToPostfix, frame, scanned>>

----------------------------------------------------------------------------
(* part_000: the calls a client makes on stack *)

NumberPush(value) ==
    /\ prog = "part_000"
    /\ pushes < MaxPushes
    /\ LET r == NumberStack_push(numberStack, value)
       IN  /\ numberStack' = r.obj
           /\ SlotCalled("push", value, r, numberStack, numberStack.length > 0)
    /\ pushes' = pushes + 1
    /\ UNCHANGED <<prog, slotStack, ret2, stack, linkedStack,
                    balancedStack, infixToPostfix, frame, scanned>>

NumberPop ==
    /\ prog = "part_000"
    /\ LET r == NumberStack_pop(numberStack)
       IN  /\ numberStack' = r.obj
           /\ SlotCalled("pop", NoArg, r, numberStack, numberStack.length > 0)
    /\ UNCHANGED <<prog, slotStack, pushes, ret2, stack, linkedStack,
                    balancedStack, infixToPostfix, frame, scanned>>

NumberPeek ==
    /\ prog = "part_000"
    /\ LET r == NumberStack_peek(numberStack)
       IN  /\ numberStack' = r.obj
           /\ SlotCalled("peek", NoArg, r, numberStack, numberStack.length > 0)
    /\ UNCHANGED <<prog, slotStack, pushes, ret2, stack, linkedStack,
                    balancedStack, infixToPostfix, frame, scanned>>

NumberUndo ==
    /\ prog = "part_000"
    /\ LET r == NumberStack_undo(numberStack)
       IN  /\ numberStack' = r.obj
           /\ SlotCalled("undo", NoArg, r, numberStack, numberStack.length > 0)
    /\ UNCHANGED <<prog, slotStack, pushes, ret2, stack, linkedStack,
                    balancedStack, infixToPostfix, frame, scanned>>

----------------------------------------------------------------------------
(* linkedStackNode.ts and BalancedStack.ts: one client makes the same calls *)
(* on a LinkedStack and on a BalancedStack                                  *)

TwinPush(value) ==
    /\ prog = "linkedStackNode.ts, BalancedStack.ts"
    /\ linkedStack.size < MaxLinkedSize
    /\ LET r == LinkedStack_push(linkedStack, value)
           r2 == BalancedStack_push(balancedStack, value)
       IN  /\ linkedStack' = r.obj
           /\ balancedStack' = r2.obj
           /\ ret2' = r2.ret
           /\ Called("push", value, r, linkedStack, linkedStack.size > 0)
    /\ UNCHANGED <<prog, numberStack, pushes, slotStack, stack, infixToPostfix, frame, scanned>>

TwinPop ==
    /\ prog = "linkedStackNode.ts, BalancedStack.ts"
    /\ Len(linkedStack.poppedHistory) < MaxHistory
    /\ LET r == LinkedStack_pop(linkedStack)
           r2 == BalancedStack_pop(balancedStack)
       IN  /\ linkedStack' = r.obj
           /\ balancedStack' = r2.obj
           /\ ret2' = r2.ret
           /\ Called("pop", NoArg, r, linkedStack, linkedStack.size > 0)
    /\ UNCHANGED <<prog, numberStack, pushes, slotStack, stack, infixToPostfix, frame, scanned>>

TwinPeek ==
    /\ prog = "linkedStackNode.ts, BalancedStack.ts"
    /\ LET r == LinkedStack_peek(linkedStack)
           r2 == BalancedStack_peek(balancedStack)
       IN  /\ linkedStack' = r.obj
           /\ balancedStack' = r2.obj
           /\ ret2' = r2.ret
           /\ Called("peek", NoArg, r, linkedStack, linkedStack.size > 0)
    /\ UNCHANGED <<prog, numberStack, pushes, slotStack, stack, infixToPostfix, frame, scanned>>

TwinUndo ==
    /\ prog = "linkedStackNode.ts, BalancedStack.ts"
    /\ LET r == LinkedStack_undo(linkedStack)
           r2 == BalancedStack_undo(balancedStack)
       IN  /\ linkedStack' = r.obj
           /\ balancedStack' = r2.obj
           /\ ret2' = r2.ret
           /\ Called("undo", NoArg, r, linkedStack, linkedStack.size > 0)
    /\ UNCHANGED <<prog, numberStack, pushes, slotStack, stack, infixToPostfix, frame, scanned>>

----------------------------------------------------------------------------
(* BalancedStack.ts: calls of isBalanced, all on the one balancedStack *)

\* isBalanced(expression) runs to its return
CallIsBalanced(expression) ==
    /\ prog = "BalancedStack.ts"
    /\ op # "isBalanced"
    /\ LET r == isBalanced(balancedStack, expression)
       IN  /\ balancedStack' = r.obj
           /\ ret' = r.ret
           /\ log' = r.log
    /\ scanned' = scanned + Len(expression)
    /\ op' = "isBalanced"
    /\ arg' = expression
    /\ before' = balancedStack
    /\ lifo' = NoLifo
    /\ run' = NoRun
    /\ justPopped' = NoArg
    /\ UNCHANGED <<prog, numberStack, pushes, slotStack, ret2, stack, linkedStack, infixToPostfix, frame>>

\* console.log(isBalanced(expression)): the caller prints the result and
\* keeps nothing of the call; the stack stays as the call left it
ConsoleLog ==
    /\ prog = "BalancedStack.ts"
    /\ op = "isBalanced"
    /\ op' = "console.log"
    /\ arg' = NoArg
    /\ ret' = Undefined
    /\ log' = <<>>
    /\ before' = balancedStack
    /\ UNCHANGED <<prog, numberStack, pushes, slotStack, ret2, stack, linkedStack,
                    balancedStack, infixToPostfix, frame,
                    scanned, lifo, run, justPopped>>

----------------------------------------------------------------------------
(* InfixToPostfixAlgorithm.ts: calls of convert, all on the one             *)
(* infixToPostfix, and the steps of the running call                        *)

\* infixToPostfix.convert(expression) is entered: postfixExpression = ''
\* and the for loop is at the first character.  expected is the postfix
\* form the grammar gives the expression, where the caller took it from
\* the grammar.
CallConvert(expression, expected, demo) ==
    /\ prog = "InfixToPostfixAlgorithm.ts"
    /\ frame.pc = "idle"
    /\ frame' = [pc |-> "for", expression |-> expression, i |-> 1,
                 postfixExpression |-> <<>>, demo |-> demo,
                 expected |-> expected]
    /\ scanned' = scanned + Len(expression)
    /\ op' = "convert"
    /\ log' = <<>>
    /\ before' = infixToPostfix
    /\ UNCHANGED <<prog, numberStack, pushes, slotStack, ret2, stack, linkedStack,
                    balancedStack, infixToPostfix,
                    arg, ret, lifo, run, justPopped>>

\* `for (const char of expression)`: the next character is taken and, where
\* it is a bracket that opens or an operand, handled; past the last
\* character the final loop is next
ConvertFor ==
    /\ prog = "InfixToPostfixAlgorithm.ts"
    /\ frame.pc = "for"
    /\ IF frame.i > Len(frame.expression)
       THEN /\ frame' = [frame EXCEPT !.pc = "final"]
            /\ UNCHANGED infixToPostfix
       ELSE LET char == frame.expression[frame.i]
            IN  IF char = "(" \/ char = "{" \/ char = "["
                THEN /\ infixToPostfix' =
                            InfixToPostfixStack_push(infixToPostfix, char).obj
                     /\ frame' = [frame EXCEPT !.i = @ + 1]
                ELSE IF char = ")" \/ char = "}" \/ char = "]"
                THEN /\ frame' = [frame EXCEPT !.pc = "closing"]
                     /\ UNCHANGED infixToPostfix
                ELSE IF isOperator(char)
                THEN /\ frame' = [frame EXCEPT !.pc = "operator"]
                     /\ UNCHANGED infixToPostfix
                ELSE /\ frame' = [frame EXCEPT
                            !.postfixExpression = Appended(@, char),
                            !.i = @ + 1]
                     /\ UNCHANGED infixToPostfix
    /\ log' = <<>>
    /\ UNCHANGED <<prog, numberStack, pushes, slotStack, ret2, stack, linkedStack, balancedStack, scanned,
                    op, arg, ret, before, lifo, run, justPopped>>

\* the closing-bracket loop left with `postfixExpression += this.pop()`:
\* the opening bracket goes to the output
ConvertClosingTest_keepsBracket ==
    /\ prog = "InfixToPostfixAlgorithm.ts"
    /\ frame.pc = "closing"
    /\ LET test == ClosingTest(infixToPostfix)
           r == InfixToPostfixStack_pop(infixToPostfix)
       IN  IF test.value
           THEN /\ frame' = [frame EXCEPT !.pc = "closingBody"]
                /\ log' = test.log
                /\ UNCHANGED infixToPostfix
           ELSE /\ frame' = [frame EXCEPT
                       !.pc = "for", !.i = @ + 1,
                       !.postfixExpression = Appended(@, r.ret)]
                /\ log' = test.log \o r.log
                /\ infixToPostfix' = r.obj
    /\ UNCHANGED <<prog, numberStack, pushes, slotStack, ret2, stack, linkedStack, balancedStack, scanned,
                    op, arg, ret, before, lifo, run, justPopped>>

\* the test of the closing-bracket loop; where it fails the loop is left,
\* `this.pop()` removes the opening bracket and the for loop goes on
ConvertClosingTest ==
    /\ prog = "InfixToPostfixAlgorithm.ts"
    /\ frame.pc = "closing"
    /\ LET test == ClosingTest(infixToPostfix)
           r == InfixToPostfixStack_pop(infixToPostfix)
       IN  IF test.value
           THEN /\ frame' = [frame EXCEPT !.pc = "closingBody"]
                /\ log' = test.log
                /\ UNCHANGED infixToPostfix
           ELSE /\ frame' = [frame EXCEPT !.pc = "for", !.i = @ + 1]
                /\ log' = test.log \o r.log
                /\ infixToPostfix' = r.obj
    /\ UNCHANGED <<prog, numberStack, pushes, slotStack, ret2, stack, linkedStack, balancedStack, scanned,
                    op, arg, ret, before, lifo, run, justPopped>>

\* the body of the closing-bracket loop: `postfixExpression += this.pop()`
ConvertClosingBody ==
    /\ prog = "InfixToPostfixAlgorithm.ts"
    /\ frame.pc = "closingBody"
    /\ LET r == InfixToPostfixStack_pop(infixToPostfix)
       IN  /\ frame' = [frame EXCEPT
                  !.pc = "closing",
                  !.postfixExpression = Appended(@, r.ret)]
           /\ log' = r.log
           /\ infixToPostfix' = r.obj
    /\ UNCHANGED <<prog, numberStack, pushes, slotStack, ret2, stack, linkedStack, balancedStack, scanned,
                    op, arg, ret, before, lifo, run, justPopped>>

\* one round of the operator loop: its test and then either its body or,
\* the test failing, `this.push(char)`
ConvertOperator ==
    /\ prog = "InfixToPostfixAlgorithm.ts"
    /\ frame.pc = "operator"
    /\ LET char == frame.expression[frame.i]
           test == OperatorTest(infixToPostfix, char)
           r == InfixToPostfixStack_pop(infixToPostfix)
       IN  IF test.value
           THEN /\ frame' = [frame EXCEPT
                       !.postfixExpression = Appended(@, r.ret)]
                /\ log' = test.log \o r.log
                /\ infixToPostfix' = r.obj
           ELSE /\ frame' = [frame EXCEPT !.pc = "for", !.i = @ + 1]
                /\ log' = test.log
                /\ infixToPostfix' =
                       InfixToPostfixStack_push(infixToPostfix, char).obj
    /\ UNCHANGED <<prog, numberStack, pushes, slotStack, ret2, stack, linkedStack, balancedStack, scanned,
                    op, arg, ret, before, lifo, run, justPopped>>

\* the final loop with `while (this.length > 1)`: the bottom entry stays
ConvertFinal_leavesOne ==
    /\ prog = "InfixToPostfixAlgorithm.ts"
    /\ frame.pc = "final"
    /\ LET r == InfixToPostfixStack_pop(infixToPostfix)
       IN  IF infixToPostfix.length > 1
           THEN /\ frame' = [frame EXCEPT
                       !.postfixExpression = Appended(@, r.ret)]
                /\ log' = r.log
                /\ infixToPostfix' = r.obj
           ELSE /\ frame' = [frame EXCEPT !.pc = "returned"]
                /\ log' = <<>>
                /\ UNCHANGED infixToPostfix
    /\ UNCHANGED <<prog, numberStack, pushes, slotStack, ret2, stack, linkedStack, balancedStack, scanned,
                    op, arg, ret, before, lifo, run, justPopped>>

\* one round of `while (!this.isEmpty()) postfixExpression += this.pop()`
\* or, the stack being empty, `return postfixExpression`
ConvertFinal ==
    /\ prog = "InfixToPostfixAlgorithm.ts"
    /\ frame.pc = "final"
    /\ LET r == InfixToPostfixStack_pop(infixToPostfix)
       IN  IF ~InfixToPostfixStack_isEmpty(infixToPostfix)
           THEN /\ frame' = [frame EXCEPT
                       !.postfixExpression = Appended(@, r.ret)]
                /\ log' = r.log
                /\ infixToPostfix' = r.obj
           ELSE /\ frame' = [frame EXCEPT !.pc = "returned"]
                /\ log' = <<>>
                /\ UNCHANGED infixToPostfix
    /\ UNCHANGED <<prog, numberStack, pushes, slotStack, ret2, stack, linkedStack, balancedStack, scanned,
                    op, arg, ret, before, lifo, run, justPopped>>

\* `const postfixExpression1 = infixToPostfix.convert(expression1)`: the
\* caller stores the result; the stack stays as the call left it
StoreResult ==
    /\ prog = "InfixToPostfixAlgorithm.ts"
    /\ frame.pc = "returned"
    /\ frame' = IdleFrame(frame.demo)
    /\ op' = "const"
    /\ log' = <<>>
    /\ before' = infixToPostfix
    /\ UNCHANGED <<prog, numberStack, pushes, slotStack, ret2, stack, linkedStack,
                    balancedStack, infixToPostfix,
                    scanned, arg, ret, lifo, run, justPopped>>

\* the demo's expressions
infixExpression1 == <<"A", "+", "B", "*", "C", "-", "D", "/", "E">>
infixExpression2 == <<"A", "*", "(", "B", "+", "C", ")", "/", "D">>
infixExpression3 == <<"A", "+", "(", "(", "B", "*", "C", ")", "-", "(", "D", "/", "E", ")", ")", "/", "F">>

DemoExpressions == <<infixExpression1, infixExpression2, infixExpression3>>

\* what the comments of convert and of the demo give as results
DocConversions ==
    { [infix |-> <<"A", "+", "B", "*", "C">>, postfix |-> <<"A", "B", "C", "*", "+">>],
      [infix |-> <<"A", "*", "(", "B", "+", "C", ")">>, postfix |-> <<"A", "B", "C", "+", "*">>],
      [infix |-> <<"A", "+", "B", "-", "C">>, postfix |-> <<"A", "B", "+", "C", "-">>],
      [infix |-> infixExpression1, postfix |-> <<"A", "B", "C", "*", "+", "D", "E", "/", "-">>],
      [infix |-> infixExpression2, postfix |-> <<"A", "B", "C", "+", "*", "D", "/">>] }

\* the characters of the strings convert is called on: two operands (to
\* the code '^' is one), the operators and the brackets
InfixAlphabet == {"A", "^", "+", "-", "*", "/", "(", ")", "[", "]", "{", "}"}

InfixStringsOfLen(n) == [1..n -> InfixAlphabet]

\* strings with a bracket that nothing matches
UnmatchedExamples == { <<")">>, <<"A", "+", "B", ")">>, <<"(", "A", "+", "B">> }

\* strings with characters that are neither operators nor brackets
OperandExamples ==
    { <<"2", "^", "3", "+", "5", "%", "7">>, <<"(", "B", "%", "A", ")", "*", "C">> }

----------------------------------------------------------------------------
(* The programs *)

Constructed(p, b) ==
    /\ prog = p
    /\ stack = NewStack
    /\ balancedStack = NewBalancedStack
    /\ linkedStack = NewLinkedStack
    /\ infixToPostfix = NewInfixToPostfixStack
    /\ frame = IdleFrame(0)
    /\ scanned = 0
    /\ op = "new"
    /\ arg = NoArg
    /\ ret = Undefined
    /\ log = <<>>
    /\ before = b
    /\ lifo = [phase |-> "pushing", pushed |-> <<>>, popped |-> <<>>]
    /\ run = NoRun
    /\ justPopped = NoArg
    /\ slotStack = NewSlotStack
    /\ ret2 = Undefined
    /\ numberStack = NewNumberStack
    /\ pushes = 0

\* stack.ts and linkedStackNode.ts, each driven by any client
Init ==
    \/ Constructed("stack.ts", NewStack)
    \/ Constructed("linkedStackNode.ts", NewLinkedStack)

Next ==
    \/ \E value \in Values : Push(value)
    \/ Pop
    \/ Peek
    \/ Undo
    \/ \E value \in Values : LinkedPush(value)
    \/ LinkedPop
    \/ LinkedPeek
    \/ LinkedUndo

Spec == Init /\ [][Next]_vars

\* stack.ts driven by a client that pushes at most MAX_SIZE values onto the
\* fresh stack and then only pops, at most as many times
LifoInit == Constructed("stack.ts", NewStack)

LifoPush == \E value \in Values : Push(value) /\ lifo'.phase = "pushing"

LifoPop == PopStep /\ lifo'.phase = "popping"

LifoNext == LifoPush \/ LifoPop

LifoSpec == LifoInit /\ [][LifoNext]_vars

\* BalancedStack.ts: isBalanced called on any expressions, one after another
BalancedInit == Constructed("BalancedStack.ts", NewBalancedStack)

\* a call on a string that fits into the characters left
CallOnString ==
    /\ scanned < MaxChars
    /\ \E n \in 0..(MaxChars - scanned) :
           \E expression \in ExpressionsOfLen(n) : CallIsBalanced(expression)

\* a call on a documented example
CallOnDocExpression ==
    /\ scanned < MaxChars
    /\ \E expression \in DocExpressions : CallIsBalanced(expression)

BalancedNext ==
    \/ CallOnString
    \/ CallOnDocExpression
    \/ ConsoleLog

BalancedSpec == BalancedInit /\ [][BalancedNext]_vars

\* The infix expressions E ::= operand | E op E | (E) | [E] | {E}, each with
\* its postfix form when '*' and '/' bind tighter than '+' and '-' and
\* operators of equal precedence group from the left:
\*     expression ::= term   | expression ('+' | '-') term
\*     term       ::= factor | term ('*' | '/') factor
\*     factor     ::= operand | '(' expression ')' | '[' ... ']' | '{' ... '}'
Operands == {"A", "B"}

BracketPairs == {<<"(", ")">>, <<"[", "]">>, <<"{", "}">>}

Bracketed(es) ==
    { [infix |-> <<b[1]>> \o e.infix \o <<b[2]>>, postfix |-> e.postfix] :
          e \in es, b \in BracketPairs }

Joined(ls, ops, rs) ==
    { [infix |-> l.infix \o <<o>> \o r.infix,
       postfix |-> l.postfix \o r.postfix \o <<o>>] :
          l \in ls, o \in ops, r \in rs }

\* Grammar(n)[k]: the factors, terms and expressions with k operands and
\* bracket pairs together, for k in 1..n
RECURSIVE Grammar(_)
Grammar(n) ==
    IF n = 0 THEN <<>>
    ELSE LET g == Grammar(n - 1)
             factors ==
                 IF n = 1
                 THEN { [infix |-> <<c>>, postfix |-> <<c>>] : c \in Operands }
                 ELSE Bracketed(g[n - 1].expressions)
             terms ==
                 factors \cup
                 UNION { Joined(g[k].terms, {"*", "/"}, g[n - k].factors) :
                             k \in 1..(n - 1) }
             expressions ==
                 terms \cup
                 UNION { Joined(g[k].expressions, {"+", "-"}, g[n - k].terms) :
                             k \in 1..(n - 1) }
         IN  Append(g, [factors |-> factors, terms |-> terms,
                        expressions |-> expressions])

GrammarExpressions ==
    LET g == Grammar(MaxExprSize)
    IN  UNION { g[k].expressions : k \in 1..MaxExprSize }

\* InfixToPostfixAlgorithm.ts: convert called on any expressions, one after
\* another
ConvertInit == Constructed("InfixToPostfixAlgorithm.ts", NewInfixToPostfixStack)

\* a call on a string that fits into the characters left
ConvertString ==
    /\ scanned < MaxInfixChars
    /\ \E n \in 0..(MaxInfixChars - scanned) :
           \E expression \in InfixStringsOfLen(n) :
               CallConvert(expression, <<"none">>, 0)

\* the first call, on an expression of the grammar
ConvertExpression ==
    /\ scanned = 0
    /\ \E e \in GrammarExpressions : CallConvert(e.infix, e.postfix, 0)

\* the first call, on an example of the comments, on a string with an
\* unmatched bracket or on one with other characters
ConvertExample ==
    /\ scanned = 0
    /\ \/ \E d \in DocConversions : CallConvert(d.infix, d.postfix, 0)
       \/ \E u \in UnmatchedExamples \cup OperandExamples
                     \cup {infixExpression3} :
              CallConvert(u, <<"none">>, 0)

\* the demo: expression1, expression2 and expression3 in this order
ConvertDemo ==
    \E k \in 1..3 :
        /\ frame.demo = k - 1
        /\ scanned = (IF k > 1 THEN Len(infixExpression1) ELSE 0)
                     + (IF k > 2 THEN Len(infixExpression2) ELSE 0)
        /\ CallConvert(DemoExpressions[k], <<"none">>, k)

ConvertRun ==
    \/ ConvertFor
    \/ ConvertClosingTest
    \/ ConvertClosingBody
    \/ ConvertOperator
    \/ ConvertFinal

ConvertNext ==
    \/ ConvertString
    \/ ConvertExpression
    \/ ConvertExample
    \/ ConvertDemo
    \/ ConvertRun
    \/ StoreResult

ConvertSpec == ConvertInit /\ [][ConvertNext]_vars

\* a call that was entered goes on running
ConvertFairSpec == ConvertSpec /\ WF_vars(ConvertRun)

Converting == prog = "InfixToPostfixAlgorithm.ts"

Returned == Converting /\ frame.pc = "returned"

\* the three array-backed stacks with a length field, each in its program
ArrayInit ==
    \/ Constructed("stack.ts", NewStack)
    \/ BalancedInit
    \/ ConvertInit

ArrayNext ==
    \/ \E value \in Values : Push(value)
    \/ Pop
    \/ Peek
    \/ Undo
    \/ prog = "BalancedStack.ts" /\ BalancedNext
    \/ prog = "InfixToPostfixAlgorithm.ts" /\ ConvertNext

ArraySpec == ArrayInit /\ [][ArrayNext]_vars

\* stack.ts and part_002 driven by the same push, pop and undo calls
PairInit == Constructed("stack.ts, part_002", NewStack)

PairNext ==
    \/ \E value \in Values : PairPush(value)
    \/ PairPop
    \/ PairUndo

PairSpec == PairInit /\ [][PairNext]_vars

\* part_002 driven by any client
SlotInit == Constructed("part_002", NewSlotStack)

SlotNext ==
    \/ \E value \in Values : SlotPush(value)
    \/ SlotPop
    \/ SlotPeek
    \/ SlotUndo

SlotSpec == SlotInit /\ [][SlotNext]_vars

\* part_000 driven by any client
NumberInit == Constructed("part_000", NewNumberStack)

NumberNext ==
    \/ \E value \in Numbers : NumberPush(value)
    \/ NumberPop
    \/ NumberPeek
    \/ NumberUndo

NumberSpec == NumberInit /\ [][NumberNext]_vars

\* a LinkedStack and a BalancedStack driven by the same calls, from empty
TwinInit == Constructed("linkedStackNode.ts, BalancedStack.ts", NewLinkedStack)

TwinNext ==
    \/ \E value \in Values : TwinPush(value)
    \/ TwinPop
    \/ TwinPeek
    \/ TwinUndo

TwinSpec == TwinInit /\ [][TwinNext]_vars

----------------------------------------------------------------------------
(* Properties of the stacks *)

\* the same contents, count and undo history
SameStack(a, b) ==
    /\ StackContents(a) = StackContents(b)
    /\ a.length = b.length
    /\ a.topLevel = b.topLevel
    /\ a.poppedHistory = b.poppedHistory

SameLinked(a, b) ==
    /\ LinkedContents(a) = LinkedContents(b)
    /\ a.size = b.size
    /\ a.poppedHistory = b.poppedHistory

\* C1: after n <= MAX_SIZE pushes onto a fresh Stack, the i-th pop returns
\* the (n-i+1)-th pushed value: the values come back in reverse order.
C1_LifoLaw ==
    lifo.phase = "popping" =>
        \A i \in 1..Len(lifo.popped) :
            lifo.popped[i] = lifo.pushed[Len(lifo.pushed) - i + 1]

\* MAX_SIZE pushes of values that are not all equal, then MAX_SIZE pops
C1_Witness ==
    /\ lifo.phase = "popping"
    /\ Len(lifo.pushed) = MAX_SIZE
    /\ Len(lifo.popped) = MAX_SIZE
    /\ lifo.pushed[1] # lifo.pushed[MAX_SIZE]

\* C2: a push onto a Stack that holds MAX_SIZE elements changes nothing:
\* elements, topLevel, length and the undo history are as before the call.
C2_PushOnFullChangesNothing ==
    (prog = "stack.ts" /\ op = "push" /\ before.length = MAX_SIZE) =>
        /\ stack.elements = before.elements
        /\ stack.topLevel = before.topLevel
        /\ stack.length = before.length
        /\ stack.poppedHistory = before.poppedHistory

\* a push rejected by a full stack whose undo history is not empty
C2_Witness ==
    /\ prog = "stack.ts"
    /\ op = "push"
    /\ before.length = MAX_SIZE
    /\ before.poppedHistory # <<>>
    /\ log = <<"stack overflow">>

\* C3: pop on an empty stack returns undefined (Stack) or null (LinkedStack)
\* and changes nothing, so that a following undo does what it would have
\* done without the failed pop.
C3_PopOnEmptyChangesNothing ==
    /\ (prog = "stack.ts" /\ op = "pop" /\ before.length = 0) =>
           /\ ret = Undefined
           /\ stack = before
           /\ Stack_undo(stack) = Stack_undo(before)
    /\ (prog = "linkedStackNode.ts" /\ op = "pop" /\ before.size = 0) =>
           /\ ret = Null
           /\ linkedStack = before
           /\ LinkedStack_undo(linkedStack) = LinkedStack_undo(before)

\* a failed pop on a stack that earlier pops have emptied
C3_Witness ==
    /\ prog = "stack.ts"
    /\ op = "pop"
    /\ before.length = 0
    /\ before.poppedHistory # <<>>
    /\ log = <<"stack underflow">>

\* C4: pop on a non-empty stack immediately followed by undo: undo returns
\* the value pop returned; contents, count and undo history are what they
\* were before the pop; the next pop returns the same value again.
C4_PopUndoRoundTrip ==
    (op = "undo" /\ Len(run.undos) = 1) =>
        LET k == Len(run.pops)
        IN  /\ ret = run.pops[k]
            /\ prog = "stack.ts" =>
                   /\ SameStack(stack, run.states[k])
                   /\ Stack_pop(stack).ret = run.pops[k]
            /\ prog = "linkedStackNode.ts" =>
                   /\ SameLinked(linkedStack, run.states[k])
                   /\ LinkedStack_pop(linkedStack).ret = run.pops[k]

\* an undo right after the second of two pops that returned different values
C4_Witness ==
    /\ prog = "stack.ts"
    /\ op = "undo"
    /\ Len(run.undos) = 1
    /\ Len(run.pops) = 2
    /\ run.pops[1] # run.pops[2]

\* C5: undo with an empty undo history returns undefined and leaves the
\* contents, the count and the history unchanged.
C5_UndoOnEmptyHistory ==
    /\ (prog = "stack.ts" /\ op = "undo" /\ before.poppedHistory = <<>>) =>
           /\ ret = Undefined
           /\ SameStack(stack, before)
    /\ (prog = "linkedStackNode.ts" /\ op = "undo" /\ before.poppedHistory = <<>>) =>
           /\ ret = Undefined
           /\ SameLinked(linkedStack, before)

\* an undo with an empty history on a stack that holds elements
C5_Witness ==
    /\ prog = "linkedStackNode.ts"
    /\ op = "undo"
    /\ before.poppedHistory = <<>>
    /\ before.size > 0

\* C6: k pops from a non-empty stack followed by k undos: the j-th undo
\* returns the value of the (k-j+1)-th pop, and after the k-th undo the
\* contents, count and history are those before the first pop.
C6_MultiLevelUndo ==
    Len(run.undos) >= 1 =>
        LET k == Len(run.pops)
            j == Len(run.undos)
        IN  /\ run.undos[j] = run.pops[k - j + 1]
            /\ (j = k /\ prog = "stack.ts") => SameStack(stack, run.states[1])
            /\ (j = k /\ prog = "linkedStackNode.ts") =>
                   SameLinked(linkedStack, run.states[1])

\* two pops that returned different values, then two undos
C6_Witness ==
    /\ prog = "stack.ts"
    /\ Len(run.pops) >= 2
    /\ Len(run.undos) = Len(run.pops)
    /\ run.pops[1] # run.pops[2]

\* C7: whenever undo of the bounded Stack returns a value v, v is on top of
\* the stack afterwards and the count has grown by one, also on a full stack.
C7_UndoAlwaysRestores ==
    (prog = "stack.ts" /\ op = "undo" /\ ret # Undefined) =>
        /\ Stack_peek(stack).ret = ret
        /\ stack.length = before.length + 1

C16_PushThenPop ==
    [][ (op = "push" /\ op' = "pop") =>
            /\ (prog = "stack.ts" /\ before.length < MAX_SIZE) =>
                   /\ ret' = arg
                   /\ StackContents(stack') = StackContents(before)
                   /\ stack'.length = before.length
                   /\ stack'.poppedHistory = Append(before.poppedHistory, arg)
            /\ prog = "linkedStackNode.ts" =>
                   /\ ret' = arg
                   /\ LinkedContents(linkedStack') = LinkedContents(before)
                   /\ linkedStack'.size = before.size
                   /\ linkedStack'.poppedHistory =
                          Append(before.poppedHistory, arg) ]_vars

\* a pop that directly follows the last of two pushes onto a new stack
C16_Witness ==
    /\ prog = "stack.ts"
    /\ op = "pop"
    /\ lifo.phase = "popping"
    /\ lifo.pushed = <<"a", "b">>
    /\ lifo.popped = <<"b">>
    /\ StackContents(stack) = <<"a">>
    /\ stack.poppedHistory = <<"b">>

\* C17: peek never mutates.  On a non-empty stack it returns the value
\* the next pop would return, on an empty stack it fails (undefined in the
\* array stack, null in the linked stack); contents, count and undo
\* history are as before the call.
C17_PeekNeverMutates ==
    op = "peek" =>
        /\ prog = "stack.ts" =>
               /\ stack = before
               /\ ret = IF stack.length > 0 THEN Stack_pop(stack).ret
                        ELSE Undefined
        /\ prog = "linkedStackNode.ts" =>
               /\ linkedStack = before
               /\ ret = IF linkedStack.size > 0
                        THEN LinkedStack_pop(linkedStack).ret
                        ELSE Null

\* a peek at a stack of two elements with a value in the history
C17_Witness ==
    /\ prog = "stack.ts"
    /\ op = "peek"
    /\ StackContents(stack) = <<"a", "b">>
    /\ stack.poppedHistory # <<>>
    /\ ret = "b"

\* C18: the count of the bounded stack never exceeds the capacity: after
\* every sequence of push, pop, peek and undo calls 0 <= length <= MAX_SIZE,
\* also right after an undo on a full stack.
C18_CountWithinCapacity ==
    prog = "stack.ts" => (0 <= stack.length /\ stack.length <= MAX_SIZE)

\* an undo on a full stack with a value in the history
C18_Witness ==
    /\ prog = "stack.ts"
    /\ op = "undo"
    /\ before.length = MAX_SIZE
    /\ before.poppedHistory # <<>>
    /\ ret # Undefined
    /\ stack.length = MAX_SIZE

LengthAgrees(s) == s.length = s.topLevel + 1 /\ s.topLevel >= -1

History == IF prog = "stack.ts" THEN stack.poppedHistory
           ELSE linkedStack.poppedHistory

Count == IF prog = "stack.ts" THEN stack.length ELSE linkedStack.size

CountBefore == IF prog = "stack.ts" THEN before.length ELSE before.size

\* C20 as claimed: the undo history never mixes values from more than one
\* run of uninterrupted pops: all the values it holds were removed by pops
\* with no push between them.  So after a pop that directly follows an
\* accepted push the history holds the value of that pop alone.
C20_HistoryIsOneRun ==
    [][ (op = "push" /\ Count > CountBefore /\ op' = "pop") =>
            Len(History') <= 1 ]_vars

\* C20: the undo history holds, oldest first, the values removed by the
\* pops that have not been undone, whatever was pushed between them: a pop
\* appends the value it removed, an undo takes the newest entry off, and
\* push and peek leave the history as it is.
C20_HistoryAcrossPushes ==
    [][ /\ op' \in {"push", "peek"} => History' = History
        /\ op' = "pop" =>
               History' = IF Count > 0 THEN Append(History, ret') ELSE History
        /\ op' = "undo" => History' = ArrayPopRest(History) ]_vars

\* an accepted push that found a value in the history and left it there
C20_Witness ==
    /\ prog = "stack.ts"
    /\ op = "push"
    /\ stack.length > before.length
    /\ before.poppedHistory # <<>>
    /\ stack.poppedHistory = before.poppedHistory

\* the elements of the stack of the program, bottom first
Contents == IF prog = "stack.ts" THEN StackContents(stack)
            ELSE LinkedContents(linkedStack)

ContentsBefore == IF prog = "stack.ts" THEN StackContents(before)
                  ELSE LinkedContents(before)

\* C21: push leaves the undo history unchanged, whether it is accepted or
\* rejected; so after pop() returning v, push(x), undo() the stack ends
\* with x directly below v on top.
C21_UndoAfterPush ==
    [][ /\ op' = "push" => History' = History
        /\ (justPopped # NoArg /\ op' = "undo") =>
               Contents' = Append(Contents, justPopped) ]_vars

\* C22: the history-based undo generalizes the single-slot undo.  Under
\* the same push, pop and undo calls, with undo called only while the slot
\* is filled, the Stack of stack.ts and the Stack of part_002 hold the same
\* contents and every pop returns the same value from both; and whenever
\* the slot is filled it equals the last entry of the history.
C22_HistoryGeneralizesSlot ==
    prog = "stack.ts, part_002" =>
        /\ StackContents(slotStack) = StackContents(stack)
        /\ slotStack.length = stack.length
        /\ op = "pop" => ret2 = ret
        /\ slotStack.element # Undefined =>
               /\ stack.poppedHistory # <<>>
               /\ slotStack.element = ArrayPopValue(stack.poppedHistory)

\* an undo after which the history still holds an older value while the
\* slot is empty
C22_Witness ==
    /\ prog = "stack.ts, part_002"
    /\ op = "undo"
    /\ ret # Undefined
    /\ stack.length = before.length + 1
    /\ stack.poppedHistory # <<>>
    /\ slotStack.element = Undefined

\* null of the linked stack stands for undefined of the array stack
SameValue(linked, array) ==
    IF linked = Null THEN array = Undefined ELSE array = linked

\* C23: LinkedStack and the unbounded array stack (BalancedStack) are the
\* same data type: under the same push, pop, peek and undo calls from
\* empty, each pop, peek and undo returns the same value from both (null
\* in LinkedStack for undefined in the array stack) and the counts are
\* equal after every call.
C23_LinkedIsArrayStack ==
    prog = "linkedStackNode.ts, BalancedStack.ts" =>
        /\ linkedStack.size = balancedStack.length
        /\ op \in {"pop", "peek", "undo"} => SameValue(ret, ret2)

\* an undo that restores the older of two popped values in both stacks
C23_Witness ==
    /\ prog = "linkedStackNode.ts, BalancedStack.ts"
    /\ op = "undo"
    /\ run.pops = <<"b", "a">>
    /\ run.undos = <<"a", "b">>
    /\ ret2 = "b"
    /\ balancedStack.length = 2

RECURSIVE RefsFrom(_, _)
\* the nodes from node ref on through next, ref first
RefsFrom(nodes, ref) ==
    IF ref = NullRef THEN <<>>
    ELSE <<ref>> \o RefsFrom(nodes, nodes[ref].next)

\* C24: the structure of LinkedStack after every sequence of push, pop and
\* undo calls: head is null iff tail is null iff size is 0; size is the
\* number of nodes reachable from head through next; and on a non-empty
\* stack tail is the last node reachable from head, with tail.next = null.
C24_LinkedStructure ==
    prog = "linkedStackNode.ts" =>
        LET refs == RefsFrom(linkedStack.nodes, linkedStack.head)
        IN  /\ (linkedStack.head = NullRef) <=> (linkedStack.tail = NullRef)
            /\ (linkedStack.head = NullRef) <=> (linkedStack.size = 0)
            /\ linkedStack.size = Len(refs)
            /\ linkedStack.size > 0 =>
                   /\ linkedStack.tail = refs[Len(refs)]
                   /\ linkedStack.nodes[linkedStack.tail].next = NullRef

\* a push has put a second node on top of the tail node, with a value in
\* the history
C24_Witness ==
    /\ prog = "linkedStackNode.ts"
    /\ op = "push"
    /\ linkedStack.size = 2
    /\ linkedStack.poppedHistory # <<>>
    /\ linkedStack.head # linkedStack.tail
    /\ linkedStack.nodes[linkedStack.head].next = linkedStack.tail

\* how many times each value occurs in a sequence
Occurrences(s) ==
    [v \in Values |-> Cardinality({k \in DOMAIN s : s[k] = v})]

\* the values LinkedStack holds: those on the stack and those in the history
Held == LinkedContents(linkedStack) \o linkedStack.poppedHistory

\* C25: in LinkedStack no pushed value is ever lost or duplicated: size
\* plus the length of the undo history is the number of push calls the
\* client has made, and the values on the stack together with those in the
\* history are exactly the values the client pushed.  Both are empty after
\* construction, each push of the client adds its value once, and no other
\* call changes the count or the values held.
C25_NoValueLostOrDuplicated ==
    /\ prog = "linkedStackNode.ts" => (linkedStack.size = 0 /\ Held = <<>>)
    /\ [][ prog = "linkedStackNode.ts" =>
               /\ linkedStack'.size + Len(linkedStack'.poppedHistory) =
                      linkedStack.size + Len(linkedStack.poppedHistory)
                      + (IF op' = "push" THEN 1 ELSE 0)
               /\ Occurrences(Held') =
                      [v \in Values |->
                          Occurrences(Held)[v]
                          + (IF op' = "push" /\ arg' = v THEN 1 ELSE 0)] ]_vars

\* an undo has moved a value from the history back onto the stack while
\* other values stay in both
C25_Witness ==
    /\ prog = "linkedStackNode.ts"
    /\ op = "undo"
    /\ ret # Undefined
    /\ linkedStack.size >= 2
    /\ linkedStack.poppedHistory # <<>>
    /\ Len(Held) = Len(before.poppedHistory) + before.size

----------------------------------------------------------------------------
(* Properties of isBalanced *)

Opening == {"(", "[", "{"}
Closing == {")", "]", "}"}
Closer(c) == IF c = "(" THEN ")" ELSE IF c = "[" THEN "]" ELSE "}"

\* the subsequence of bracket characters of e
Brackets(e) == SelectSeq(e, LAMBDA c : c \in Opening \cup Closing)

RECURSIVE WellNested(_)
\* b, a sequence of brackets, is properly nested with matching kinds:
\* it is empty, or its first bracket opens, a later bracket of the same
\* kind closes it, and what lies between them and after them is well nested
WellNested(b) ==
    \/ b = <<>>
    \/ /\ Head(b) \in Opening
       /\ \E i \in 2..Len(b) :
              /\ b[i] = Closer(Head(b))
              /\ WellNested(SubSeq(b, 2, i - 1))
              /\ WellNested(SubSeq(b, i + 1, Len(b)))

\* C9: called on an empty stack, isBalanced(e) is true exactly when the
\* brackets of e are properly nested with matching kinds; "()" and "({[]})"
\* give true, "([)]" and "(()" give false.
C9_IsBalancedOnEmptyStack ==
    (prog = "BalancedStack.ts" /\ op = "isBalanced"
         /\ BalancedStack_isEmpty(before)) =>
        /\ ret = WellNested(Brackets(arg))
        /\ arg \in {expression1, expression2} => ret = TRUE
        /\ arg \in {expression3, <<"(", "(", ")">>} => ret = FALSE

\* a later call, made on a stack the calls before it left empty with a
\* history, on an expression that nests the three kinds
C9_Witness ==
    /\ prog = "BalancedStack.ts"
    /\ op = "isBalanced"
    /\ BalancedStack_isEmpty(before)
    /\ before.poppedHistory # <<>>
    /\ arg = expression2
    /\ ret = TRUE

\* C10: whatever calls came before, isBalanced(e) returns what it returns
\* as the very first call of the program.
C10_ResultDependsOnlyOnExpression ==
    (prog = "BalancedStack.ts" /\ op = "isBalanced") =>
        ret = isBalanced(NewBalancedStack, arg).ret

\* the characters of e before character k
Before(e, k) == SubSeq(e, 1, k - 1)

\* character k of e is a closing bracket that the call meets, scanning from
\* stack s, while the stack is empty: the characters before it are scanned
\* to the end and leave the stack empty
MeetsClosingOnEmpty(s, e, k) ==
    /\ e[k] \in Closing
    /\ isBalanced(s, Before(e, k)).ret = TRUE

\* C26: when isBalanced meets a closing bracket while the stack is empty it
\* returns false immediately, without pushing or popping anything and
\* without reading the rest of the expression: the call returns false and
\* leaves the stack, its history and the console as the characters before
\* that bracket left them, whatever follows the bracket.
C26_ClosingOnEmptyReturnsFalse ==
    (prog = "BalancedStack.ts" /\ op = "isBalanced") =>
        \A k \in DOMAIN arg :
            MeetsClosingOnEmpty(before, arg, k) =>
                /\ ret = FALSE
                /\ balancedStack = isBalanced(before, Before(arg, k)).obj
                /\ log = isBalanced(before, Before(arg, k)).log

\* a call whose expression has a matched pair, then a closing bracket met
\* on the empty stack, then an opening bracket
C26_Witness ==
    /\ prog = "BalancedStack.ts"
    /\ op = "isBalanced"
    /\ \E k \in DOMAIN arg :
           /\ MeetsClosingOnEmpty(before, arg, k)
           /\ Brackets(Before(arg, k)) # <<>>
           /\ k < Len(arg)
           /\ arg[k + 1] \in Opening

\* C27: isBalanced ignores the characters that are not brackets: from the
\* same stack, isBalanced(e) returns the same value and leaves the same
\* stack as isBalanced(e') where e' is e without its characters other
\* than ( ) [ ] { }.
C27_NonBracketsAreIgnored ==
    (prog = "BalancedStack.ts" /\ op = "isBalanced") =>
        LET r == isBalanced(before, Brackets(arg))
        IN  /\ ret = r.ret
            /\ balancedStack = r.obj

\* a call on a stack that holds a bracket, with an expression that has
\* brackets and other characters
C27_Witness ==
    /\ prog = "BalancedStack.ts"
    /\ op = "isBalanced"
    /\ ~BalancedStack_isEmpty(before)
    /\ Brackets(arg) # arg
    /\ Len(Brackets(arg)) >= 2
    /\ ret = TRUE

\* C28: after any sequence of earlier isBalanced calls on the shared
\* stack, isBalanced never returns true for an expression whose brackets
\* are not balanced.
C28_UnbalancedIsNeverAccepted ==
    (prog = "BalancedStack.ts" /\ op = "isBalanced"
         /\ ~WellNested(Brackets(arg))) =>
        ret = FALSE

----------------------------------------------------------------------------
(* Properties of convert *)

\* the expressions of the grammar short enough to be passed to any call
ShortExpressions ==
    { e \in GrammarExpressions : Len(e.infix) <= MaxInfixChars }

Chars(s) == { s[k] : k \in DOMAIN s }

\* C13: when convert meets a closing bracket and the stack holds no opening
\* bracket, the conversion ends with an unmatched-bracket error: it does
\* not go on to pop the empty stack, and what an empty pop returns is
\* never made part of the output.
C13_UnmatchedClosingIsAnError ==
    (Converting /\ frame.pc # "idle") =>
        /\ ~(frame.pc = "closingBody"
             /\ InfixToPostfixStack_isEmpty(infixToPostfix))
        /\ Chars(frame.postfixExpression) \subseteq Chars(frame.expression)

\* C14: convert terminates on every finite input: every call that was
\* entered returns.
C14_ConvertTerminates == (Converting /\ op = "convert") ~> Returned

\* C15: if an opening bracket is still on the stack when the scan of the
\* expression has ended, as for "(A+B", convert reports an unmatched-bracket
\* error and does not emit the bracket: no string that convert returns
\* holds an opening bracket.
C15_LeftoverBracketIsAnError ==
    Returned => Chars(frame.postfixExpression) \cap {"(", "[", "{"} = {}

\* the characters convert takes for operands: those that are neither one of
\* + - * / nor a bracket
IsOperand(c) == c \notin {"+", "-", "*", "/"} \cup Opening \cup Closing

OperandsOf(s) == SelectSeq(s, IsOperand)

\* C29: in convert every character that is not one of + - * / ( ) [ ] { }
\* ('^' and '%' too) is appended to the output at the moment it is scanned,
\* so the operands appear in the returned output in the order they have in
\* the input.
C29_OperandsKeepTheirOrder ==
    /\ [][ (/\ Converting
            /\ frame.pc = "for"
            /\ frame.i <= Len(frame.expression)
            /\ IsOperand(frame.expression[frame.i])) =>
               /\ frame'.postfixExpression =
                      Append(frame.postfixExpression,
                             frame.expression[frame.i])
               /\ frame'.i = frame.i + 1
               /\ frame'.pc = "for" ]_vars
    /\ [](Returned =>
              OperandsOf(frame.postfixExpression) = OperandsOf(frame.expression))

\* a call has returned whose input has '^' and '%' among its operands and
\* operators between them
C29_Witness ==
    /\ Returned
    /\ {"^", "%"} \subseteq Chars(frame.expression)
    /\ Len(OperandsOf(frame.expression)) >= 3
    /\ frame.postfixExpression # frame.expression

\* how many times c occurs in s
CountOf(s, c) == Cardinality({k \in DOMAIN s : s[k] = c})

\* how many brackets of e are open after its first k characters
OpenAfter(e, k) ==
    Cardinality({j \in 1..k : e[j] \in Opening})
    - Cardinality({j \in 1..k : e[j] \in Closing})

\* each closing bracket of e is preceded by a still-open opening bracket and
\* no bracket stays open at the end
BracketsClose(e) ==
    /\ \A k \in DOMAIN e : OpenAfter(e, k) >= 0
    /\ OpenAfter(e, Len(e)) = 0

\* C30: for every input in which each closing bracket is preceded by a
\* still-open opening bracket and no bracket stays open at the end, the
\* string convert returns has no bracket and is a permutation of the
\* input's characters that are not brackets.
C30_OutputPermutesNonBrackets ==
    (Returned /\ BracketsClose(frame.expression)) =>
        /\ Chars(frame.postfixExpression) \cap (Opening \cup Closing) = {}
        /\ Len(frame.postfixExpression) =
               Len(frame.expression) - Len(Brackets(frame.expression))
        /\ \A c \in Chars(frame.expression) \ (Opening \cup Closing) :
               CountOf(frame.postfixExpression, c) = CountOf(frame.expression, c)

\* a call has returned whose input has brackets, all closed, an operator
\* inside them and one after them
C30_Witness ==
    /\ Returned
    /\ BracketsClose(frame.expression)
    /\ \E k \in DOMAIN frame.expression :
           /\ frame.expression[k] \in Closing
           /\ k > 2
           /\ k < Len(frame.expression)
           /\ isOperator(frame.expression[k - 2])
           /\ isOperator(frame.expression[k + 1])

\* the operator stack from bottom to top
OperatorStack == SubSeq(infixToPostfix.elements, 1, infixToPostfix.topLevel + 1)

\* + - * /, told by the characters themselves
IsOperatorChar(c) == c \in {"+", "-", "*", "/"}

\* the rank the precedence table gives: * and / 2, + and - 1
Rank(c) == IF c \in {"*", "/"} THEN 2 ELSE IF c \in {"+", "-"} THEN 1 ELSE 0

\* C31: during convert, between scanned characters, any two operators
\* adjacent on the operator stack with no bracket between them have strictly
\* increasing precedence from bottom to top, so at most two operators sit
\* directly on one another above the nearest opening bracket.
C31_OperatorsRiseOnTheStack ==
    (Converting /\ frame.pc = "for") =>
        /\ \A k \in 1..(Len(OperatorStack) - 1) :
               (IsOperatorChar(OperatorStack[k])
                    /\ IsOperatorChar(OperatorStack[k + 1])) =>
                   Rank(OperatorStack[k]) < Rank(OperatorStack[k + 1])
        /\ \A k \in 1..(Len(OperatorStack) - 2) :
               ~(/\ IsOperatorChar(OperatorStack[k])
                 /\ IsOperatorChar(OperatorStack[k + 1])
                 /\ IsOperatorChar(OperatorStack[k + 2]))

\* between two characters the stack holds two operators, one on the other,
\* after an operator was popped to the output
C31_Witness ==
    /\ Converting
    /\ frame.pc = "for"
    /\ \E k \in 1..(Len(OperatorStack) - 1) :
           /\ IsOperatorChar(OperatorStack[k])
           /\ IsOperatorChar(OperatorStack[k + 1])
    /\ \E j \in DOMAIN frame.postfixExpression :
           IsOperatorChar(frame.postfixExpression[j])

\* C32: whenever convert returns, the converter's operator stack is empty
\* (topLevel = -1, length = 0), whatever the input; hence on the shared
\* converter the string returned for an expression is the string a
\* converter that has converted nothing returns for it.
C32_StackEmptyOnReturn ==
    Returned =>
        /\ infixToPostfix.topLevel = -1
        /\ infixToPostfix.length = 0
        /\ LET first == convert(NewInfixToPostfixStack, frame.expression)
           IN  /\ first.returns
               /\ first.postfixExpression = frame.postfixExpression

\* a call has returned, with operators in its result, on a converter whose
\* earlier calls have pushed and popped
C32_Witness ==
    /\ Returned
    /\ before.poppedHistory # <<>>
    /\ \E j \in DOMAIN frame.postfixExpression :
           IsOperatorChar(frame.postfixExpression[j])
    /\ infixToPostfix.elements # <<>>

\* e with every opening bracket replaced by '(' and every closing bracket
\* by ')'
RoundBrackets(e) ==
    [k \in DOMAIN e |->
        IF e[k] \in Opening THEN "(" ELSE IF e[k] \in Closing THEN ")" ELSE e[k]]

\* C33: convert does not check bracket kinds: a closing bracket of any kind
\* closes the nearest opening bracket of any kind, so convert(e) returns
\* what convert(e') returns, where e' is e with every opening bracket
\* replaced by '(' and every closing bracket by ')'.
C33_BracketKindsAreNotChecked ==
    Returned =>
        LET round == convert(NewInfixToPostfixStack,
                             RoundBrackets(frame.expression))
        IN  /\ round.returns
            /\ round.postfixExpression = frame.postfixExpression

\* the characters precedence and isOperator are applied to in a call: those
\* of the expression, what peek returns and the '' that stands for undefined
Ranked ==
    Chars(frame.expression)
        \cup {OrEmptyString(InfixToPostfixStack_peek(infixToPostfix).ret)}

\* C37: precedence returns 2 for '*' and '/', 1 for '+' and '-', and 0 for
\* every other character, the six brackets among them; isOperator(c) is
\* true exactly when precedence(c) > 0.
C37_PrecedenceTable ==
    (Converting /\ frame.pc # "idle") =>
        \A c \in Ranked :
            /\ precedence(c) =
                   (IF c \in {"*", "/"} THEN 2
                    ELSE IF c \in {"+", "-"} THEN 1 ELSE 0)
            /\ isOperator(c) <=> (precedence(c) > 0)

\* the operator loop is testing '*' or '/' against a '+' or '-' on top of
\* the stack, in an expression with brackets and operands
C37_Witness ==
    /\ Converting
    /\ frame.pc = "operator"
    /\ frame.expression[frame.i] \in {"*", "/"}
    /\ InfixToPostfixStack_peek(infixToPostfix).ret \in {"+", "-"}
    /\ Chars(frame.expression) \cap Opening # {}
    /\ Chars(frame.expression) \cap Closing # {}
    /\ \E c \in Chars(frame.expression) : IsOperand(c)

----------------------------------------------------------------------------
(* Properties of the stacks with the single undo slot *)

\* C34: in the single-slot generic Stack (part_002) only the most recent
\* pop can be undone, and only once: an undo() that directly follows an
\* undo(), with no pop in between, leaves the stack unchanged.
C34_SecondUndoChangesNothing ==
    [][ (prog = "part_002" /\ op = "undo" /\ op' = "undo") =>
            /\ slotStack' = slotStack
            /\ log' = <<"no element was deleted">> ]_vars

\* two pops from a stack of two, an undo that has put the second value back
\* and a second undo
C34_Witness ==
    /\ prog = "part_002"
    /\ op = "undo"
    /\ Len(run.pops) = 2
    /\ Len(run.undos) = 2
    /\ StackContents(slotStack) = <<run.pops[2]>>
    /\ slotStack = before

\* C35: in the number-only Stack with the element slot (part_000) a pop can
\* be undone at most once: after any sequence of push, pop and undo calls
\* the stack never holds more elements than the client has pushed.
C35_NoMoreElementsThanPushes ==
    prog = "part_000" => numberStack.length <= pushes

\* C36: in the number-only Stack (part_000) undo right after a pop restores
\* the popped element for every numeric value, 0 too: the top is the popped
\* value and the length is what it was before the pop.
C36_UndoRestoresEveryNumber ==
    (prog = "part_000" /\ op = "undo"
         /\ run.pops # <<>> /\ Len(run.undos) = 1) =>
        LET n == Len(run.pops)
        IN  /\ NumberStack_peek(numberStack).ret = run.pops[n]
            /\ numberStack.length = run.states[n].length

====
